---- MODULE Spec2Model ----
(***************************************************************************)
(* A model of model.py of spikefinder: the graph that build_model          *)
(* assembles (as the list of layers it creates, each with the shape Keras  *)
(* infers for it), the metrics and the loss of the training driver, and    *)
(* the driver itself (class weights, compile, the batching generator and   *)
(* the fit loop).                                                          *)
(*                                                                         *)
(* Tensors of the graph are numbered by the position of the layer that     *)
(* produces them.  A shape is the tuple of its dimensions, batch           *)
(* dimension first; ShapeError is the "shape" of a layer Keras refuses to  *)
(* build.                                                                  *)
(***************************************************************************)
EXTENDS Integers, Sequences, FiniteSets, TLC

VARIABLES
    batch,      \* the number of samples B fed to the graph
    calls,      \* build_model: the frame of every call in progress
    cell,       \* inception_cell applied to a free-standing input
    metric,     \* the metrics and the loss evaluated on one batch
    train       \* the training driver (__main__)

vars == <<batch, calls, cell, metric, train>>

\* The value of a variable the specification at hand does not use.
Idle == [pc |-> "idle"]

-----------------------------------------------------------------------------
(* Bounds of the model *)

MaxTimesteps == 3
MaxBatch == 2
MaxChannels == 4

\* The calls of build_model that are compared with each other.
Calls == {1, 2}

-----------------------------------------------------------------------------
(* Shapes: what each Keras layer makes of the shape of its input *)

ShapeError == <<>>

RECURSIVE Product(_)
Product(s) == IF s = <<>> THEN 1 ELSE Head(s) * Product(Tail(s))

RECURSIVE SumSeq(_)
SumSeq(s) == IF s = <<>> THEN 0 ELSE Head(s) + SumSeq(Tail(s))

RECURSIVE GCD(_, _)
GCD(a, b) == IF b = 0 THEN a ELSE GCD(b, a % b)

Last(s) == s[Len(s)]
Front(s) == SubSeq(s, 1, Len(s) - 1)

\* Input(shape=...): the batch dimension is put in front.
InputShape(B, shape) == <<B>> \o shape

\* RepeatVector(n): (B, features) -> (B, n, features).
RepeatVectorShape(s, n) ==
    IF Len(s) = 2 THEN <<s[1], n, s[2]>> ELSE ShapeError

\* Flatten(): (B, d1, d2, ...) -> (B, d1 * d2 * ...).
FlattenShape(s) ==
    IF Len(s) >= 2 THEN <<s[1], Product(Tail(s))>> ELSE ShapeError

\* Embedding(input_dim, output_dim): (B, length) -> (B, length, output_dim).
EmbeddingShape(s, output_dim) ==
    IF Len(s) = 2 THEN <<s[1], s[2], output_dim>> ELSE ShapeError

\* BatchNormalization: the shape is kept.
BatchNormalizationShape(s) == s

\* merge(mode='concat', concat_axis=-1): the inputs agree on every axis but
\* the last, whose sizes add up.
ConcatShape(shapes) ==
    IF /\ shapes # <<>>
       /\ \A i \in 1..Len(shapes) :
            /\ shapes[i] # ShapeError
            /\ Len(shapes[i]) = Len(shapes[1])
            /\ Front(shapes[i]) = Front(shapes[1])
    THEN Front(shapes[1]) \o <<SumSeq([i \in 1..Len(shapes) |-> Last(shapes[i])])>>
    ELSE ShapeError

\* The length a convolution or a pooling window leaves of a time axis.
ConvOutputLengthValid(length, filter_size, border_mode, stride) ==
    ((length - filter_size + 1) + stride - 1) \div stride

ConvOutputLength(length, filter_size, border_mode, stride) ==
    LET out == IF border_mode = "same" THEN length
               ELSE length - filter_size + 1
    IN  (out + stride - 1) \div stride

\* Convolution1D(nb_filter, filter_length, border_mode): (B, T, C) ->
\* (B, T', nb_filter).
Convolution1DShape(s, nb_filter, filter_length, border_mode) ==
    IF Len(s) = 3 /\ ConvOutputLength(s[2], filter_length, border_mode, 1) >= 1
    THEN <<s[1], ConvOutputLength(s[2], filter_length, border_mode, 1), nb_filter>>
    ELSE ShapeError

\* AveragePooling1D(pool_length, stride, border_mode): (B, T, C) -> (B, T', C).
AveragePooling1DShapeValid(s, pool_length, stride, border_mode) ==
    IF Len(s) = 3 /\ ConvOutputLength(s[2], pool_length, "valid", stride) >= 1
    THEN <<s[1], ConvOutputLength(s[2], pool_length, "valid", stride), s[3]>>
    ELSE ShapeError

AveragePooling1DShape(s, pool_length, stride, border_mode) ==
    IF Len(s) = 3 /\ ConvOutputLength(s[2], pool_length, border_mode, stride) >= 1
    THEN <<s[1], ConvOutputLength(s[2], pool_length, border_mode, stride), s[3]>>
    ELSE ShapeError

\* Bidirectional(LSTM(units, return_sequences=True)): the forward and the
\* backward sequence are concatenated, (B, T, C) -> (B, T, 2 * units).
BidirectionalShape(s, units) ==
    IF Len(s) = 3 THEN <<s[1], s[2], 2 * units>> ELSE ShapeError

\* TimeDistributed(Dense(units)): (B, T, C) -> (B, T, units).
TimeDistributedShape(s, units) ==
    IF Len(s) = 3 THEN <<s[1], s[2], units>> ELSE ShapeError

-----------------------------------------------------------------------------
(* The graph: the layers in the order of their creation *)

Layer(kind, name, ins, arg, shape) ==
    [kind |-> kind, name |-> name, ins |-> ins, arg |-> arg, shape |-> shape]

\* The shape of tensor x of graph g.
ShapeOf(g, x) == g[x].shape

\* conv_bn(x, nb_filter, filter_length): a 'same' convolution, then a batch
\* normalisation; the graph with both layers added (the result is its last
\* tensor).
conv_bn(g, x, nb_filter, filter_length) ==
    LET conv == Layer("Convolution1D", "", <<x>>, <<nb_filter, filter_length>>,
                      Convolution1DShape(ShapeOf(g, x), nb_filter,
                                         filter_length, "same"))
        g1 == Append(g, conv)
        bn == Layer("BatchNormalization", "", <<Len(g1)>>, <<1>>,
                    BatchNormalizationShape(conv.shape))
    IN  Append(g1, bn)

\* inception_cell(x): the four branches and their concatenation.
inception_cell(g, x) ==
    LET g1 == conv_bn(g, x, 64, 1)
        branch1x1 == Len(g1)
        g2 == conv_bn(g1, x, 48, 1)
        g3 == conv_bn(g2, Len(g2), 64, 5)
        branch5x5 == Len(g3)
        g4 == conv_bn(g3, x, 64, 1)
        g5 == conv_bn(g4, Len(g4), 96, 3)
        g6 == conv_bn(g5, Len(g5), 96, 3)
        branch3x3dbl == Len(g6)
        pool == Layer("AveragePooling1D", "", <<x>>, <<3, 1>>,
                      AveragePooling1DShape(ShapeOf(g6, x), 3, 1, "same"))
        g7 == Append(g6, pool)
        g8 == conv_bn(g7, Len(g7), 32, 1)
        branch_pool == Len(g8)
        ins == <<branch1x1, branch5x5, branch3x3dbl, branch_pool>>
    IN  Append(g8, Layer("Merge", "", ins, <<-1>>,
                         ConcatShape([i \in 1..4 |-> ShapeOf(g8, ins[i])])))

\* for _ in range(3): the iterations of the loop over the inception cells.
CellRangeShort == 1..2

CellRange == 1..3

-----------------------------------------------------------------------------
(* build_model(num_timesteps), statement by statement *)

Frame(T) ==
    [pc |-> "inputs", num_timesteps |-> T, graph |-> <<>>,
     dataset |-> 0, calcium |-> 0, data_emb |-> 0, calcium_norm |-> 0,
     hidden |-> 0, i |-> 0, output |-> 0,
     model |-> [input |-> <<>>, output |-> <<>>]]

\* dataset = Input(shape=(1,), name='dataset');
\* calcium = Input(shape=(num_timesteps, 1), name='calcium')
BuildInputs(c) ==
    /\ calls[c].pc = "inputs"
    /\ LET f == calls[c]
           g1 == Append(f.graph, Layer("Input", "dataset", <<>>, <<>>,
                                       InputShape(batch, <<1>>)))
           g2 == Append(g1, Layer("Input", "calcium", <<>>, <<>>,
                                  InputShape(batch, <<f.num_timesteps, 1>>)))
       IN  calls' = [calls EXCEPT ![c] =
                [f EXCEPT !.pc = "embed", !.graph = g2,
                          !.dataset = Len(g1), !.calcium = Len(g2)]]
    /\ UNCHANGED <<batch, cell, metric, train>>

\* flat = Flatten()(RepeatVector(num_timesteps)(dataset));
\* data_emb = Embedding(10, 1)(flat)
BuildEmbed(c) ==
    /\ calls[c].pc = "embed"
    /\ LET f == calls[c]
           rep == Layer("RepeatVector", "", <<f.dataset>>, <<f.num_timesteps>>,
                        RepeatVectorShape(ShapeOf(f.graph, f.dataset),
                                          f.num_timesteps))
           g1 == Append(f.graph, rep)
           flat == Layer("Flatten", "", <<Len(g1)>>, <<>>, FlattenShape(rep.shape))
           g2 == Append(g1, flat)
           emb == Layer("Embedding", "", <<Len(g2)>>, <<10, 1>>,
                        EmbeddingShape(flat.shape, 1))
           g3 == Append(g2, emb)
       IN  calls' = [calls EXCEPT ![c] =
                [f EXCEPT !.pc = "norm", !.graph = g3, !.data_emb = Len(g3)]]
    /\ UNCHANGED <<batch, cell, metric, train>>

\* calcium_norm = BatchNormalization(mode=2, axis=1)(calcium)
BuildNorm(c) ==
    /\ calls[c].pc = "norm"
    /\ LET f == calls[c]
           g1 == Append(f.graph,
                        Layer("BatchNormalization", "", <<f.calcium>>, <<1>>,
                              BatchNormalizationShape(ShapeOf(f.graph, f.calcium))))
       IN  calls' = [calls EXCEPT ![c] =
                [f EXCEPT !.pc = "merge", !.graph = g1, !.calcium_norm = Len(g1)]]
    /\ UNCHANGED <<batch, cell, metric, train>>

\* hidden = merge([calcium_norm, data_emb], mode='concat', concat_axis=-1)
BuildMerge(c) ==
    /\ calls[c].pc = "merge"
    /\ LET f == calls[c]
           ins == <<f.calcium_norm, f.data_emb>>
           g1 == Append(f.graph,
                        Layer("Merge", "", ins, <<-1>>,
                              ConcatShape([k \in 1..2 |-> ShapeOf(f.graph, ins[k])])))
       IN  calls' = [calls EXCEPT ![c] =
                [f EXCEPT !.pc = "cells", !.graph = g1, !.hidden = Len(g1)]]
    /\ UNCHANGED <<batch, cell, metric, train>>

\* for _ in range(3): hidden = inception_cell(hidden)
BuildCell(c) ==
    /\ calls[c].pc = "cells"
    /\ calls[c].i + 1 \in CellRange
    /\ LET f == calls[c]
           g1 == inception_cell(f.graph, f.hidden)
       IN  calls' = [calls EXCEPT ![c] =
                [f EXCEPT !.graph = g1, !.hidden = Len(g1), !.i = f.i + 1]]
    /\ UNCHANGED <<batch, cell, metric, train>>

\* hidden = Bidirectional(LSTM(64, return_sequences=True))(hidden), once the
\* loop is over
BuildRecurrent(c) ==
    /\ calls[c].pc = "cells"
    /\ calls[c].i + 1 \notin CellRange
    /\ LET f == calls[c]
           g1 == Append(f.graph,
                        Layer("Bidirectional", "", <<f.hidden>>, <<64>>,
                              BidirectionalShape(ShapeOf(f.graph, f.hidden), 64)))
       IN  calls' = [calls EXCEPT ![c] =
                [f EXCEPT !.pc = "output", !.graph = g1, !.hidden = Len(g1)]]
    /\ UNCHANGED <<batch, cell, metric, train>>

\* output = TimeDistributed(Dense(7, activation='softmax'))(hidden)
BuildOutput(c) ==
    /\ calls[c].pc = "output"
    /\ LET f == calls[c]
           g1 == Append(f.graph,
                        Layer("TimeDistributed", "", <<f.hidden>>, <<7>>,
                              TimeDistributedShape(ShapeOf(f.graph, f.hidden), 7)))
       IN  calls' = [calls EXCEPT ![c] =
                [f EXCEPT !.pc = "model", !.graph = g1, !.output = Len(g1)]]
    /\ UNCHANGED <<batch, cell, metric, train>>

\* model = Model(input=[dataset, calcium], output=[output]); return model
BuildReturn(c) ==
    /\ calls[c].pc = "model"
    /\ LET f == calls[c]
       IN  calls' = [calls EXCEPT ![c] =
                [f EXCEPT !.pc = "done",
                          !.model = [input |-> <<f.dataset, f.calcium>>,
                                     output |-> <<f.output>>]]]
    /\ UNCHANGED <<batch, cell, metric, train>>

InitBuild ==
    /\ batch \in 1..MaxBatch
    /\ calls \in [Calls -> {Frame(T) : T \in 1..MaxTimesteps}]
    /\ cell = Idle
    /\ metric = Idle
    /\ train = Idle

NextBuild ==
    \E c \in DOMAIN calls :
        \/ BuildInputs(c)
        \/ BuildEmbed(c)
        \/ BuildNorm(c)
        \/ BuildMerge(c)
        \/ BuildCell(c)
        \/ BuildRecurrent(c)
        \/ BuildOutput(c)
        \/ BuildReturn(c)

SpecBuild == InitBuild /\ [][NextBuild]_vars

-----------------------------------------------------------------------------
(* inception_cell on an input of any shape (B, T, C), next to one call of  *)
(* build_model                                                             *)

CellApply ==
    /\ cell.pc = "input"
    /\ LET g0 == <<Layer("Input", "x", <<>>, <<>>, cell.shape)>>
           g1 == inception_cell(g0, 1)
       IN  cell' = [cell EXCEPT !.pc = "done", !.graph = g1, !.out = Len(g1)]
    /\ UNCHANGED <<batch, calls, metric, train>>

InitCell ==
    /\ batch \in 1..MaxBatch
    /\ calls \in [{1} -> {Frame(T) : T \in 1..MaxTimesteps}]
    /\ \E T \in 1..MaxTimesteps, C \in 1..MaxChannels :
            cell = [pc |-> "input", shape |-> InputShape(batch, <<T, C>>),
                    graph |-> <<>>, out |-> 0]
    /\ metric = Idle
    /\ train = Idle

NextCell ==
    \/ CellApply
    \/ NextBuild

SpecCell == InitCell /\ [][NextCell]_vars

-----------------------------------------------------------------------------
(* The metrics and the loss.                                               *)
(*                                                                         *)
(* A tensor y of shape (B, T, 7) is y[b][t][k]; its entries are fractions  *)
(* counted in units of 1 / Unit.  Sums, products and means are exact; a    *)
(* mean over N entries is kept as the sum, in units of 1 / N.  The         *)
(* quotient n / (K.sqrt(d) + 1e-12) is kept as its parts, see Quotient.    *)

\* Dense(7): the classes are 0 .. NumClasses - 1.
NumClasses == 7

\* The entries of a tensor are multiples of 1 / Unit.
Unit == 2

OneHot(i) == [k \in 1..NumClasses |-> IF k = i + 1 THEN Unit ELSE 0]

\* K.argmax(row, axis=-1): the first index of the largest entry.
ArgMax(row) ==
    (CHOOSE k \in 1..Len(row) :
        /\ \A j \in 1..Len(row) : row[j] <= row[k]
        /\ \A j \in 1..(k - 1) : row[j] < row[k]) - 1

\* K.argmax(y, axis=-1) of a tensor (B, T, 7): the class indices (B, T).
ArgMaxTensor(y) == [b \in 1..Len(y) |-> [t \in 1..Len(y[b]) |-> ArgMax(y[b][t])]]

\* The number of entries of a matrix (B, T).
Size(a) == Len(a) * Len(a[1])

\* The sum of all entries of a matrix (B, T); K.mean(a) is SumAll(a) / Size(a).
SumAll(a) == SumSeq([b \in 1..Len(a) |-> SumSeq(a[b])])

\* In float32 (24 bits of mantissa) x + 1e-12 rounds to x exactly when
\* x >= 2^-EpsilonAbsorbedLog2: half the distance from x to the next float is
\* then at least 2^-39 > 1e-12, and below it at most 2^-40 < 1e-12.
EpsilonAbsorbedLog2 == 15

\* K.sqrt(d) + 1e-12, for d = d2 / unit^4: the square of the root, and
\* whether the 1e-12 is still there after the addition is rounded
\* (sqrt(d) < 2^-15, that is d2 * 2^30 < unit^4).
DenominatorNoEpsilon(d2, unit) == [root2 |-> d2, eps |-> FALSE]

Denominator(d2, unit) ==
    [root2 |-> d2,
     eps |-> d2 < (unit * unit * unit * unit + 2^(2 * EpsilonAbsorbedLog2) - 1)
                        \div 2^(2 * EpsilonAbsorbedLog2)
                \/ d2 = 0]

\* n / den for n = n2 / unit^2: the value is n2 / (sqrt(root2) + eps * unit^2
\* * 1e-12).
Quotient(n2, den) == [num |-> n2, root2 |-> den.root2, eps |-> den.eps]

\* A quotient whose divisor is 0 has no value.
IsNaN(q) == q.root2 = 0 /\ ~q.eps
IsZero(q) == ~IsNaN(q) /\ q.num = 0
\* |q| <= 1: num^2 <= root2 (the 1e-12 only makes the divisor larger).
InUnitInterval(q) == ~IsNaN(q) /\ q.num * q.num <= q.root2
\* q = 1: the numerator is the root, and the 1e-12 was rounded away.
IsOne(q) == q.num > 0 /\ q.num * q.num = q.root2 /\ ~q.eps

\* pearson_corr(y_true, y_pred): sign * K.mean(terms) with the quotient of
\* every sample in terms.
pearson_corr(y_true, y_pred) ==
    LET a_true == ArgMaxTensor(y_true)
        a_pred == ArgMaxTensor(y_pred)
        N == Size(a_true)
        \* y - K.mean(y), in units of 1 / N
        x_mean == [b \in 1..Len(a_true) |-> [t \in 1..Len(a_true[b]) |->
                        N * a_true[b][t] - SumAll(a_true)]]
        y_mean == [b \in 1..Len(a_pred) |-> [t \in 1..Len(a_pred[b]) |->
                        N * a_pred[b][t] - SumAll(a_pred)]]
        n == [b \in 1..Len(a_true) |->
                 SumSeq([t \in 1..Len(a_true[b]) |-> x_mean[b][t] * y_mean[b][t]])]
        d == [b \in 1..Len(a_true) |->
                 SumSeq([t \in 1..Len(a_true[b]) |-> x_mean[b][t] * x_mean[b][t]])
                 * SumSeq([t \in 1..Len(a_true[b]) |-> y_mean[b][t] * y_mean[b][t]])]
    IN  [sign |-> 1,
         terms |-> [b \in 1..Len(a_true) |-> Quotient(n[b], Denominator(d[b], N))]]

\* The sum of all entries of sample b of a tensor (B, T, 7) of integers.
SumSample(z, b) == SumSeq([t \in 1..Len(z[b]) |-> SumSeq(z[b][t])])

\* pearson_loss(y_true, y_pred): -K.mean(terms).
pearson_loss_terms(y_true, y_pred) ==
    LET a_true == ArgMaxTensor(y_true)
        a_pred == ArgMaxTensor(y_pred)
        N == Size(a_true)
        \* y - K.mean(argmax(y)), in units of 1 / (Unit * N)
        x_mean == [b \in 1..Len(y_true) |-> [t \in 1..Len(y_true[b]) |->
                    [k \in 1..NumClasses |->
                        N * y_true[b][t][k] - Unit * SumAll(a_true)]]]
        y_mean == [b \in 1..Len(y_pred) |-> [t \in 1..Len(y_pred[b]) |->
                    [k \in 1..NumClasses |->
                        N * y_pred[b][t][k] - Unit * SumAll(a_pred)]]]
        prod(u, v) == [b \in 1..Len(u) |-> [t \in 1..Len(u[b]) |->
                        [k \in 1..NumClasses |-> u[b][t][k] * v[b][t][k]]]]
        n == [b \in 1..Len(y_true) |-> SumSample(prod(x_mean, y_mean), b)]
        d == [b \in 1..Len(y_true) |->
                 SumSample(prod(x_mean, x_mean), b) * SumSample(prod(y_mean, y_mean), b)]
    IN  [b \in 1..Len(y_true) |-> Quotient(n[b], Denominator(d[b], Unit * N))]

pearson_loss_not_negated(y_true, y_pred) ==
    [sign |-> 1, terms |-> pearson_loss_terms(y_true, y_pred)]

pearson_loss(y_true, y_pred) ==
    [sign |-> -1, terms |-> pearson_loss_terms(y_true, y_pred)]

\* bin_percent(i), the metric it returns applied to (y_true, y_pred):
\* {str(i): K.mean(K.equal(argmax(y_pred), i))}, the mean as num / den.
bin_percent_last(i, y_true, y_pred) ==
    LET a == ArgMaxTensor(y_pred)
        eq == [b \in 1..Len(a) |-> [t \in 1..Len(a[b]) |->
                    IF a[b][t] = NumClasses - 1 THEN 1 ELSE 0]]
    IN  [key |-> i, num |-> SumAll(eq), den |-> Size(a)]

bin_percent(i, y_true, y_pred) ==
    LET a == ArgMaxTensor(y_pred)
        eq == [b \in 1..Len(a) |-> [t \in 1..Len(a[b]) |->
                    IF a[b][t] = i THEN 1 ELSE 0]]
    IN  [key |-> i, num |-> SumAll(eq), den |-> Size(a)]

-----------------------------------------------------------------------------
(* Evaluating the loss and the metrics of model.compile on one batch *)

MaxCells == 4

\* The shapes (B, T) of a batch of at most MaxCells labels.
BatchShapes ==
    {s \in (1..MaxCells) \X (1..MaxCells) : s[1] * s[2] <= MaxCells}

Tensors(s, rows) == [1..s[1] -> [1..s[2] -> rows]]

\* The rows of the tensors the correlation is evaluated on: one-hot labels of
\* two classes, and for a prediction also a row split between two classes.
LabelRows == {OneHot(0), OneHot(2)}
SoftRow == [k \in 1..NumClasses |-> IF k \in {2, 3} THEN 1 ELSE 0]

\* The rows of the predictions the bin metrics are evaluated on.
AllRows == {OneHot(i) : i \in 0..(NumClasses - 1)} \cup {SoftRow}

EvalLoss ==
    /\ metric.pc = "batch"
    /\ metric.loss = <<>>
    /\ metric' = [metric EXCEPT
            !.loss = <<pearson_loss(metric.y_true, metric.y_pred)>>]
    /\ UNCHANGED <<batch, calls, cell, train>>

EvalCorr ==
    /\ metric.pc = "batch"
    /\ metric.corr = <<>>
    /\ metric' = [metric EXCEPT
            !.corr = <<pearson_corr(metric.y_true, metric.y_pred)>>]
    /\ UNCHANGED <<batch, calls, cell, train>>

\* [bin_percent(i) for i in range(7)]
EvalBins ==
    /\ metric.pc = "batch"
    /\ metric.bins = <<>>
    /\ metric' = [metric EXCEPT
            !.bins = [k \in 1..NumClasses |->
                        bin_percent(k - 1, metric.y_true, metric.y_pred)]]
    /\ UNCHANGED <<batch, calls, cell, train>>

MetricInit(y_true, y_pred) ==
    [pc |-> "batch", y_true |-> y_true, y_pred |-> y_pred,
     loss |-> <<>>, corr |-> <<>>, bins |-> <<>>]

InitPearson ==
    /\ \E s \in BatchShapes :
        \E yt \in Tensors(s, LabelRows), yp \in Tensors(s, LabelRows \cup {SoftRow}) :
            /\ batch = s[1]
            /\ metric = MetricInit(yt, yp)
    /\ calls = <<>>
    /\ cell = Idle
    /\ train = Idle

NextPearson ==
    \/ EvalLoss
    \/ EvalCorr

SpecPearson == InitPearson /\ [][NextPearson]_vars

InitBins ==
    /\ \E s \in BatchShapes :
        \E yp \in Tensors(s, AllRows) :
        \E yt \in {yp, [b \in 1..s[1] |-> [t \in 1..s[2] |-> OneHot(0)]]} :
            /\ batch = s[1]
            /\ metric = MetricInit(yt, yp)
    /\ calls = <<>>
    /\ cell = Idle
    /\ train = Idle

NextBins == EvalBins

SpecBins == InitBins /\ [][NextBins]_vars

-----------------------------------------------------------------------------
(* The training driver, __main__ *)

num_timesteps == 100
batches_per_epoch == 1000
nb_epoch == 10
batch_size == 32

\* Tuple k (k = 0, 1, ...) of utils.generate_training_set(num_timesteps): a
\* dataset id, a calcium reading and a spike count, each known by the tuple
\* it belongs to.  The stream does not end.
StreamTuple(k) ==
    <<[src |-> k, field |-> "dataset"],
      [src |-> k, field |-> "calcium"],
      [src |-> k, field |-> "spikes"]>>

\* (iterable.next() for _ in xrange(n)) on a stream at position pos: the n
\* tuples pulled.
PulledSkipping(pos, n) == [j \in 1..n |-> StreamTuple(pos + j)]

Pulled(pos, n) == [j \in 1..n |-> StreamTuple(pos + j - 1)]

\* zip(*tuples): component i of every tuple, for each i.
Zip(tuples) ==
    [i \in 1..Len(tuples[1]) |-> [j \in 1..Len(tuples) |-> tuples[j][i]]]

\* while True: whether _grouper, having yielded so many batches, goes round
\* its loop again.
GrouperLoopsOnce(yielded) == yielded < 1

GrouperLoops(yielded) == TRUE

\* One round of the loop of _grouper: the batch it yields,
\* ([batched[0], batched[1]], [batched[2]]).
GrouperBatch(pos) ==
    LET batched == Zip(Pulled(pos, batch_size))
    IN  <<[i \in 1..2 |-> batched[i]], <<batched[3]>>>>

\* a / b under "from __future__ import division": the fraction in lowest
\* terms.
FloorDivide(a, b) == [num |-> a \div b, den |-> 1]

TrueDivide(a, b) == [num |-> a \div GCD(a, b), den |-> b \div GCD(a, b)]

\* dict((str(i), 1 / (2 ** (7 - i))) for i in range(7))
ClassWeights ==
    [key \in {ToString(i) : i \in 0..6} |->
        LET i == CHOOSE j \in 0..6 : ToString(j) = key
        IN  TrueDivide(1, 2^(7 - i))]

\* samples_per_epoch=batches_per_epoch * batch_size
samples_per_epoch_unscaled == batches_per_epoch

samples_per_epoch == batches_per_epoch * batch_size

TrainInit ==
    [pc |-> "build", model |-> <<>>, class_weights |-> <<>>, compiled |-> <<>>,
     \* the generator _grouper(): its state, the position of its stream and
     \* the number of batches it has yielded
     gen |-> [state |-> "none", pos |-> 0, yielded |-> 0],
     \* fit_generator: the batch handed over by the generator, the epoch, the
     \* samples and the batches of the epoch, and the batches of every
     \* finished epoch
     pending |-> <<>>, epoch |-> 0, samples_seen |-> 0, batch_index |-> 0,
     epochs |-> <<>>]

\* Where the fit loop is: about to ask for a batch (while epoch < nb_epoch,
\* while samples_seen < samples_per_epoch), holding one, at the end of an
\* epoch, after the last epoch.
WantsBatch ==
    /\ train.pc = "epoch"
    /\ train.epoch < nb_epoch
    /\ train.samples_seen < samples_per_epoch
    /\ train.pending = <<>>

HasBatch ==
    /\ train.pc = "epoch"
    /\ train.pending # <<>>

EpochOver ==
    /\ train.pc = "epoch"
    /\ train.epoch < nb_epoch
    /\ train.pending = <<>>
    /\ train.samples_seen >= samples_per_epoch

EpochsOver ==
    /\ train.pc = "epoch"
    /\ train.epoch >= nb_epoch

\* model = build_model(num_timesteps)
MainBuild ==
    /\ train.pc = "build"
    /\ calls[1].pc = "done"
    /\ train' = [train EXCEPT !.pc = "weights", !.model = <<calls[1].model>>]
    /\ UNCHANGED <<batch, calls, cell, metric>>

\* class_weights = dict(...)
MainClassWeights ==
    /\ train.pc = "weights"
    /\ train' = [train EXCEPT !.pc = "compile", !.class_weights = <<ClassWeights>>]
    /\ UNCHANGED <<batch, calls, cell, metric>>

\* model.compile(optimizer='adam', loss=pearson_loss, metrics=[pearson_corr]
\* + [bin_percent(i) for i in range(7)], class_weights=class_weights)
MainCompile ==
    /\ train.pc = "compile"
    /\ train' = [train EXCEPT
            !.pc = "fit",
            !.compiled = <<[optimizer |-> "adam", loss |-> "pearson_loss",
                            metrics |-> <<"pearson_corr">>
                                \o [k \in 1..NumClasses |-> "bin_percent"],
                            class_weights |-> train.class_weights[1]]>>]
    /\ UNCHANGED <<batch, calls, cell, metric>>

\* model.fit_generator(_grouper(), ...): the generator object is made, the
\* first epoch begins.
FitStart ==
    /\ train.pc = "fit"
    /\ train' = [train EXCEPT !.pc = "epoch", !.gen.state = "created"]
    /\ UNCHANGED <<batch, calls, cell, metric>>

\* The fit loop asks the generator for a batch: _grouper runs (from its start
\* the first time, from its yield afterwards) to its next yield; were its
\* loop over, it would return, and next() would raise StopIteration in the
\* fit loop.
FitNextBatch ==
    /\ WantsBatch
    /\ IF GrouperLoops(train.gen.yielded)
       THEN train' = [train EXCEPT
                !.pending = <<GrouperBatch(train.gen.pos)>>,
                !.gen = [state |-> "suspended",
                         pos |-> train.gen.pos + batch_size,
                         yielded |-> train.gen.yielded + 1]]
       ELSE train' = [train EXCEPT !.pc = "crashed", !.gen.state = "finished"]
    /\ UNCHANGED <<batch, calls, cell, metric>>

\* The fit loop trains on the batch and counts its samples, len(x[0]).
FitTrainOnBatch ==
    /\ HasBatch
    /\ LET x == train.pending[1][1]
       IN  train' = [train EXCEPT
                !.pending = <<>>,
                !.samples_seen = train.samples_seen + Len(x[1]),
                !.batch_index = train.batch_index + 1]
    /\ UNCHANGED <<batch, calls, cell, metric>>

\* The epoch is over once samples_per_epoch samples were seen.
FitEpochEnd ==
    /\ EpochOver
    /\ train' = [train EXCEPT
            !.epoch = train.epoch + 1,
            !.epochs = Append(train.epochs,
                              [batches |-> train.batch_index,
                               samples |-> train.samples_seen]),
            !.samples_seen = 0,
            !.batch_index = 0]
    /\ UNCHANGED <<batch, calls, cell, metric>>

\* After nb_epoch epochs fit_generator returns, and the script ends.
FitReturn ==
    /\ EpochsOver
    /\ train' = [train EXCEPT !.pc = "done"]
    /\ UNCHANGED <<batch, calls, cell, metric>>

InitTrain ==
    /\ batch = batch_size
    /\ calls = [c \in {1} |-> Frame(num_timesteps)]
    /\ cell = Idle
    /\ metric = Idle
    /\ train = TrainInit

NextTrain ==
    \/ NextBuild
    \/ MainBuild
    \/ MainClassWeights
    \/ MainCompile
    \/ FitStart
    \/ FitNextBatch
    \/ FitTrainOnBatch
    \/ FitEpochEnd
    \/ FitReturn

SpecTrain == InitTrain /\ [][NextTrain]_vars

-----------------------------------------------------------------------------
(* The claims about the training driver *)

\* C4: the class weights are one weight for each class 0 .. 6, the weight of
\* class i is 1 / 2^(7 - i), from 1/128 to 1/2, none is 0, they increase with
\* the class, and model.compile is given this table.
C4_ClassWeights ==
    /\ train.class_weights # <<>> =>
            LET w == train.class_weights[1]
            IN  /\ DOMAIN w = {"0", "1", "2", "3", "4", "5", "6"}
                /\ \A i \in 0..6 :
                        /\ w[ToString(i)].num > 0
                        /\ w[ToString(i)].num * 2^(7 - i) = w[ToString(i)].den
                /\ w["0"] = [num |-> 1, den |-> 128]
                /\ w["6"] = [num |-> 1, den |-> 2]
                /\ \A i \in 0..5 :
                        w[ToString(i)].num * w[ToString(i + 1)].den
                            < w[ToString(i + 1)].num * w[ToString(i)].den
    /\ train.compiled # <<>> =>
            train.compiled[1].class_weights = train.class_weights[1]
    /\ train.pc \in {"fit", "epoch", "done"} =>
            train.compiled # <<>> /\ train.class_weights # <<>>

C4_Witness ==
    /\ train.pc = "epoch"
    /\ train.compiled # <<>>
    /\ train.compiled[1].class_weights["3"] = [num |-> 1, den |-> 16]

C5_Epochs ==
    /\ train.pc # "crashed"
    /\ train.gen.state # "finished"
    /\ train.epoch = Len(train.epochs)
    /\ train.epoch <= 10
    /\ \A e \in 1..Len(train.epochs) :
            /\ train.epochs[e].batches = 1000
            /\ train.epochs[e].samples = 32000
    /\ train.samples_seen = 32 * train.batch_index
    /\ train.batch_index <= 1000
    /\ train.pc = "done" =>
            /\ train.epoch = 10
            /\ train.gen.yielded = 10000
            /\ train.pending = <<>>

\* The steps the script has left: those of build_model, those of __main__
\* and those of the fit loop (an epoch is batches_per_epoch times a batch
\* yielded and a batch trained on, and its end).
StepsLeft ==
    LET f == calls[1]
        build == CASE f.pc = "inputs" -> 10
                   [] f.pc = "embed" -> 9
                   [] f.pc = "norm" -> 8
                   [] f.pc = "merge" -> 7
                   [] f.pc = "cells" -> 6 - f.i
                   [] f.pc = "output" -> 2
                   [] f.pc = "model" -> 1
                   [] OTHER -> 0
        main == CASE train.pc = "build" -> 5
                  [] train.pc = "weights" -> 4
                  [] train.pc = "compile" -> 3
                  [] train.pc = "fit" -> 2
                  [] train.pc = "epoch" -> 1
                  [] OTHER -> 0
        fit == (nb_epoch - train.epoch) * (2 * batches_per_epoch + 1)
                 - 2 * train.batch_index
                 - (IF train.pending # <<>> THEN 1 ELSE 0)
    IN  build + main + fit

\* The script has a step to take: build_model has a statement left, or
\* __main__ is at a statement it can run, or the fit loop at one of its
\* four places.
CanStep ==
    \/ calls[1].pc \in {"inputs", "embed", "norm", "merge", "cells", "output", "model"}
    \/ train.pc = "build" /\ calls[1].pc = "done"
    \/ train.pc \in {"weights", "compile", "fit"}
    \/ WantsBatch
    \/ HasBatch
    \/ EpochOver
    \/ EpochsOver

\* C5: every epoch of the fit loop ends after 1000 batches of 32 samples,
\* 32000 samples, and the generator is never exhausted; the loop returns
\* after 10 epochs, 10000 batches, and the script gets there: until it is
\* done it has a step to take, and every step leaves it fewer steps.
C5_FitTerminates ==
    /\ []C5_Epochs
    /\ [](train.pc # "done" => CanStep)
    /\ [](StepsLeft >= 0 /\ (train.pc = "done" => StepsLeft = 0))
    /\ [][StepsLeft' < StepsLeft]_vars

C5_Witness ==
    /\ train.pc = "done"
    /\ Len(train.epochs) = 10
    /\ train.gen.yielded = 10000

\* C7: _grouper does not return; its k-th batch (k = 0, 1, ...) is
\* ([dataset ids, calcium], [spikes]) of the tuples 32k .. 32k + 31 of the
\* stream, in their order, position j of the three arrays from the same
\* tuple, and it has pulled no other tuple.
C7_Batches ==
    /\ train.gen.state # "finished"
    /\ train.gen.pos = 32 * train.gen.yielded
    /\ train.pending # <<>> =>
            LET k == train.gen.yielded - 1
                b == train.pending[1]
            IN  /\ Len(b) = 2
                /\ Len(b[1]) = 2
                /\ Len(b[2]) = 1
                /\ Len(b[1][1]) = 32 /\ Len(b[1][2]) = 32 /\ Len(b[2][1]) = 32
                /\ \A j \in 1..32 :
                        /\ b[1][1][j] = [src |-> 32 * k + j - 1, field |-> "dataset"]
                        /\ b[1][2][j] = [src |-> 32 * k + j - 1, field |-> "calcium"]
                        /\ b[2][1][j] = [src |-> 32 * k + j - 1, field |-> "spikes"]

C7_Witness ==
    /\ train.pending # <<>>
    /\ train.gen.yielded = 1001
    /\ train.pending[1][1][1][1].src = 32000
    /\ train.pending[1][2][1][32].src = 32031

-----------------------------------------------------------------------------
(* The claims about the graph *)

\* The stages of graph g in the order of creation: the merge of the two
\* inputs, the four-way merge that ends an inception cell, the recurrent
\* layer and the time-distributed layer.
RECURSIVE Stages(_)
Stages(g) ==
    IF g = <<>> THEN <<>>
    ELSE LET l == Head(g)
             s == IF l.kind = "Merge" /\ Len(l.ins) = 2 THEN <<"merge">>
                  ELSE IF l.kind = "Merge" /\ Len(l.ins) = 4 THEN <<"cell">>
                  ELSE IF l.kind \in {"Bidirectional", "TimeDistributed"}
                       THEN <<l.kind>>
                  ELSE <<>>
         IN  s \o Stages(Tail(g))

\* What a graph is apart from its sizes: the kind, the name and the inputs of
\* every layer.
Topology(g) ==
    [k \in 1..Len(g) |-> [kind |-> g[k].kind, name |-> g[k].name, ins |-> g[k].ins]]

InputsOf(g) == {k \in 1..Len(g) : g[k].kind = "Input"}

\* C1: the model build_model(T) returns maps dataset (B, 1) and calcium
\* (B, T, 1) to an output of shape (B, T, 7), no layer is refused for its
\* shape, and every layer with a time axis keeps the batch size B and the
\* time length T.
C1_OutputShape ==
    \A c \in DOMAIN calls :
        LET f == calls[c]
            T == f.num_timesteps
        IN  /\ \A k \in 1..Len(f.graph) :
                    /\ f.graph[k].shape # ShapeError
                    /\ f.graph[k].shape[1] = batch
                    /\ Len(f.graph[k].shape) = 3 => f.graph[k].shape[2] = T
            /\ f.pc = "done" =>
                    /\ Len(f.model.input) = 2
                    /\ ShapeOf(f.graph, f.model.input[1]) = <<batch, 1>>
                    /\ ShapeOf(f.graph, f.model.input[2]) = <<batch, T, 1>>
                    /\ Len(f.model.output) = 1
                    /\ ShapeOf(f.graph, f.model.output[1]) = <<batch, T, 7>>

C1_Witness ==
    \E c \in DOMAIN calls :
        /\ calls[c].pc = "done"
        /\ calls[c].num_timesteps >= 2
        /\ batch >= 2
        /\ ShapeOf(calls[c].graph, calls[c].model.output[1])
                = <<batch, calls[c].num_timesteps, 7>>

\* C2: every finished call of build_model has the two inputs 'dataset' and
\* 'calcium' and one output, and the stages input merge, three inception
\* cells, one bidirectional recurrent layer and one time-distributed dense
\* layer of 7 classes, each fed by the one before; two finished calls have
\* the same topology whatever their num_timesteps.
C2_Topology ==
    /\ \A c \in DOMAIN calls :
            LET f == calls[c]
                g == f.graph
            IN  f.pc = "done" =>
                    /\ Cardinality(InputsOf(g)) = 2
                    /\ InputsOf(g) = {f.model.input[1], f.model.input[2]}
                    /\ g[f.model.input[1]].name = "dataset"
                    /\ g[f.model.input[2]].name = "calcium"
                    /\ Len(f.model.output) = 1
                    /\ Stages(g) = <<"merge", "cell", "cell", "cell",
                                     "Bidirectional", "TimeDistributed">>
                    /\ LET out == g[f.model.output[1]]
                           rec == g[out.ins[1]]
                       IN  /\ out.kind = "TimeDistributed"
                           /\ out.arg = <<7>>
                           /\ rec.kind = "Bidirectional"
                           /\ g[rec.ins[1]].kind = "Merge"
                           /\ Len(g[rec.ins[1]].ins) = 4
    /\ \A c, d \in DOMAIN calls :
            calls[c].pc = "done" /\ calls[d].pc = "done"
                => Topology(calls[c].graph) = Topology(calls[d].graph)

C2_Witness ==
    \E c, d \in DOMAIN calls :
        /\ calls[c].pc = "done"
        /\ calls[d].pc = "done"
        /\ calls[c].num_timesteps # calls[d].num_timesteps
        /\ Len(calls[c].graph) = Len(calls[d].graph)

\* The tensor the cell that ends in layer out is applied to: the input of
\* the convolution behind the batch normalisation of its first branch.
CellInput(g, out) == g[g[g[out].ins[1]].ins[1]].ins[1]

\* The four branches of the cell that ends in layer out of graph g, fed by
\* tensor x: each keeps the batch size and the time length of x, and they are
\* 64, 64, 96 and 32 channels wide, 256 together.
CellShapes(g, x, out) ==
    LET s == ShapeOf(g, x)
        m == g[out]
    IN  /\ m.kind = "Merge"
        /\ Len(m.ins) = 4
        /\ ShapeOf(g, m.ins[1]) = <<s[1], s[2], 64>>
        /\ ShapeOf(g, m.ins[2]) = <<s[1], s[2], 64>>
        /\ ShapeOf(g, m.ins[3]) = <<s[1], s[2], 96>>
        /\ ShapeOf(g, m.ins[4]) = <<s[1], s[2], 32>>
        /\ m.shape = <<s[1], s[2], 256>>

\* C8: inception_cell maps an input of shape (B, T, C) to (B, T, 256): its
\* four branches keep T, so their concatenation is defined, whatever C is;
\* in build_model the merged input has 2 channels and the tensor after each
\* of the cells has 256.
C8_CellShape ==
    /\ cell.pc = "done" =>
            /\ \A k \in 1..Len(cell.graph) :
                    /\ cell.graph[k].shape # ShapeError
                    /\ cell.graph[k].shape[2] = cell.shape[2]
            /\ CellShapes(cell.graph, 1, cell.out)
    /\ \A c \in DOMAIN calls :
            LET f == calls[c]
            IN  f.pc = "cells" =>
                    /\ f.i = 0 => ShapeOf(f.graph, f.hidden)
                                    = <<batch, f.num_timesteps, 2>>
                    /\ f.i > 0 =>
                            /\ CellShapes(f.graph, CellInput(f.graph, f.hidden),
                                          f.hidden)
                            /\ ShapeOf(f.graph, f.hidden)
                                    = <<batch, f.num_timesteps, 256>>

C8_Witness ==
    /\ cell.pc = "done"
    /\ cell.shape[3] >= 3
    /\ cell.graph[cell.out].shape = <<batch, cell.shape[2], 256>>
    /\ \E c \in DOMAIN calls : calls[c].pc = "cells" /\ calls[c].i = 3

-----------------------------------------------------------------------------
(* The claims about the metrics and the loss *)

\* The value num / sqrt(root2) as its sign and its square in lowest terms; 0
\* when the numerator is 0.
SignedSquare(num, root2) ==
    IF num = 0 THEN [sgn |-> 0, p |-> 0, q |-> 1]
    ELSE LET g == GCD(num * num, root2)
         IN  [sgn |-> IF num > 0 THEN 1 ELSE -1,
              p |-> (num * num) \div g, q |-> root2 \div g]

\* The Pearson correlation coefficient of the sequences a and p of one
\* sample, each centred on its own mean (in units of 1 / Len(a)).
PearsonOfSample(a, p) ==
    LET T == Len(a)
        x == [t \in 1..T |-> T * a[t] - SumSeq(a)]
        y == [t \in 1..T |-> T * p[t] - SumSeq(p)]
    IN  SignedSquare(SumSeq([t \in 1..T |-> x[t] * y[t]]),
                     SumSeq([t \in 1..T |-> x[t] * x[t]])
                        * SumSeq([t \in 1..T |-> y[t] * y[t]]))

CorrEvaluated == metric.pc = "batch" /\ metric.corr # <<>>
LossEvaluated == metric.pc = "batch" /\ metric.loss # <<>>
BinsEvaluated == metric.pc = "batch" /\ metric.bins # <<>>

\* The entries of a sequence are not all the same: its variance is not 0 and
\* its Pearson correlation coefficient with another such sequence is defined.
Varies(a) == \E t \in 1..Len(a) : a[t] # a[1]

\* C3: the quotient pearson_corr takes the mean of is, for every sample (whose
\* two argmax sequences both vary), the Pearson correlation coefficient of
\* the two sequences, each centred on its own mean over the sample's
\* timesteps.
C3_PerSamplePearson ==
    CorrEvaluated =>
        LET r == metric.corr[1]
            a_true == ArgMaxTensor(metric.y_true)
            a_pred == ArgMaxTensor(metric.y_pred)
        IN  /\ r.sign = 1
            /\ Len(r.terms) = Len(a_true)
            /\ \A b \in 1..Len(a_true) :
                    Varies(a_true[b]) /\ Varies(a_pred[b]) =>
                        /\ ~IsNaN(r.terms[b])
                        /\ ~r.terms[b].eps
                        /\ SignedSquare(r.terms[b].num, r.terms[b].root2)
                                = PearsonOfSample(a_true[b], a_pred[b])

\* All entries of a matrix (B, T) are the same.
ConstantOverBatch(a) ==
    \A b \in 1..Len(a) : \A t \in 1..Len(a[b]) : a[b][t] = a[1][1]

\* C10: pearson_corr never divides by zero and every quotient, hence their
\* mean, lies in [-1, 1]; when the argmax sequence of y_true or of y_pred is
\* constant over the whole batch, numerator and denominator product are 0
\* for every sample and the metric is 0.
C10_CorrDefinedBounded ==
    CorrEvaluated =>
        LET r == metric.corr[1]
            a_true == ArgMaxTensor(metric.y_true)
            a_pred == ArgMaxTensor(metric.y_pred)
        IN  /\ r.sign = 1
            /\ \A b \in 1..Len(r.terms) :
                    /\ ~IsNaN(r.terms[b])
                    /\ InUnitInterval(r.terms[b])
            /\ ConstantOverBatch(a_true) \/ ConstantOverBatch(a_pred) =>
                    \A b \in 1..Len(r.terms) :
                        /\ r.terms[b].num = 0
                        /\ r.terms[b].root2 = 0
                        /\ IsZero(r.terms[b])

C10_Witness ==
    /\ CorrEvaluated
    /\ Len(metric.y_true) >= 2
    /\ ConstantOverBatch(ArgMaxTensor(metric.y_true))
    /\ ~ConstantOverBatch(ArgMaxTensor(metric.y_pred))
    /\ \A b \in 1..Len(metric.corr[1].terms) : IsZero(metric.corr[1].terms[b])

\* C6: pearson_loss is the negated mean of the per-sample quotients, each of
\* which lies in [-1, 1], and it is -1 when y_pred equals y_true and the
\* centred tensor of every sample is non-zero.
C6_LossBounded ==
    LossEvaluated =>
        LET l == metric.loss[1]
        IN  /\ l.sign = -1
            /\ Len(l.terms) = Len(metric.y_true)
            /\ \A b \in 1..Len(l.terms) : InUnitInterval(l.terms[b])
            /\ (/\ metric.y_pred = metric.y_true
                /\ \A b \in 1..Len(l.terms) : l.terms[b].root2 > 0)
                    => \A b \in 1..Len(l.terms) : IsOne(l.terms[b])

C6_Witness ==
    /\ LossEvaluated
    /\ Len(metric.y_true) >= 2
    /\ metric.y_pred = metric.y_true
    /\ ~ConstantOverBatch(ArgMaxTensor(metric.y_true))
    /\ \A b \in 1..Len(metric.loss[1].terms) : IsOne(metric.loss[1].terms[b])

\* C9: metric i of the seven bin metrics is the fraction of the positions
\* (sample, timestep) whose argmax class is i, whatever y_true is, and the
\* seven fractions add up to 1.
C9_BinsPartition ==
    BinsEvaluated =>
        LET a == ArgMaxTensor(metric.y_pred)
            positions == {<<b, t>> : b \in 1..Len(a), t \in 1..Len(a[1])}
        IN  /\ Len(metric.bins) = NumClasses
            /\ \A i \in 0..(NumClasses - 1) :
                    /\ metric.bins[i + 1].key = i
                    /\ metric.bins[i + 1].den = Cardinality(positions)
                    /\ metric.bins[i + 1].num
                            = Cardinality({p \in positions : a[p[1]][p[2]] = i})
            /\ SumSeq([k \in 1..Len(metric.bins) |-> metric.bins[k].num])
                    = Cardinality(positions)

C9_Witness ==
    /\ BinsEvaluated
    /\ metric.y_true # metric.y_pred
    /\ metric.bins[NumClasses].num = 1
    /\ metric.bins[1].num = 1
    /\ metric.bins[2].num = 2
    /\ \E b \in 1..Len(metric.y_pred) : \E t \in 1..Len(metric.y_pred[b]) :
            metric.y_pred[b][t] = SoftRow

====
